---------------------------- MODULE Spec2Model ----------------------------
(***************************************************************************)
(* A model of scripts/hardening/secret_scan.py: the pattern registry, the  *)
(* tree walker (iter_files over os.walk), the line scanner (scan_text),    *)
(* the identity and preview engine (sha256_hex of path:line:match,         *)
(* preview), the allowlist filter (scan_paths), the self-check and main.   *)
(*                                                                         *)
(* Strings are sequences of one-character strings, so that slicing,        *)
(* startswith, substring containment and the regular expressions are       *)
(* computed character by character as Python computes them.                *)
(***************************************************************************)
EXTENDS Integers, Sequences, FiniteSets, TLC

VARIABLES
    \* preview(value)
    value, result,
    \* the hashed string of a (file_path, line, matched_text) triple
    triple, encoded,
    \* scan_text(rel_path, text): the loop over the lines
    rel_path, text, idx, findings, hits,
    \* the process: main, cmd_self_check, scan_paths, iter_files
    pc, self_check, allowlist_file, paths, fs,
    exclude_dir_prefixes, allowed,
    path_i, stack, yielded, consumed, out,
    exit_code, printed,
    \* history: the directories listed, the files opened, and for each
    \* yielded file the index in paths of the root it was yielded for
    enumerated, opened, yielded_for

previewVars == <<value, result>>
encodeVars == <<triple, encoded>>
scanVars == <<rel_path, text, idx, findings, hits>>
argVars == <<self_check, allowlist_file, paths>>
walkVars == <<path_i, stack, yielded, enumerated, yielded_for>>
procVars == <<pc, fs, exclude_dir_prefixes, allowed, consumed, out,
              exit_code, printed, opened>>
vars == <<previewVars, encodeVars, scanVars, argVars, walkVars, procVars>>

---------------------------------------------------------------------------
(* Characters and strings *)

Digits == {"0","1","2","3","4","5","6","7","8","9"}
UpperLetters == {"A","B","C","D","E","F","G","H","I","J","K","L","M","N","O","P","Q",
                  "R","S","T","U","V","W","X","Y","Z"}
LowerLetters == {"a","b","c","d","e","f","g","h","i","j","k","l","m","n","o","p","q",
                  "r","s","t","u","v","w","x","y","z"}
HexDigits == {"0","1","2","3","4","5","6","7","8","9","a","b","c","d","e","f","A","B",
               "C","D","E","F"}
AlphaNum == Digits \cup UpperLetters \cup LowerLetters
\* \w of the re module, on the ASCII characters the model uses
WordChars == AlphaNum \cup {"_"}
\* str.strip() and \s, on the characters the model uses
Whitespace == {" ","\t","\n","\r"}
\* the line boundaries of str.splitlines(), on the characters the model uses
LineBreaks == {"\n","\r"}
Quotes == {"'", "\""}

UpperSeq == <<"A","B","C","D","E","F","G","H","I","J","K","L","M","N","O","P","Q","R",
              "S","T","U","V","W","X","Y","Z">>
LowerSeq == <<"a","b","c","d","e","f","g","h","i","j","k","l","m","n","o","p","q","r",
              "s","t","u","v","w","x","y","z">>
DigitSeq == <<"0","1","2","3","4","5","6","7","8","9">>

Max(S) == CHOOSE m \in S : \A n \in S : n <= m

\* a[i:j] of Python for 0 <= i, j (0-based, j exclusive), clipped to the string
Slice(s, i, j) == SubSeq(s, i + 1, IF j > Len(s) THEN Len(s) ELSE j)

\* s.startswith(prefix)
StartsWith(s, prefix) ==
    Len(prefix) <= Len(s) /\ SubSeq(s, 1, Len(prefix)) = prefix

\* needle in hay
Contains(hay, needle) ==
    \E i \in 0..(Len(hay) - Len(needle)) :
        SubSeq(hay, i + 1, i + Len(needle)) = needle

\* hay.find(needle) + 1, or 0
FirstIndex(hay, needle) ==
    LET at == {i \in 1..(Len(hay) - Len(needle) + 1) :
                  SubSeq(hay, i, i + Len(needle) - 1) = needle}
    IN IF at = {} THEN 0 ELSE CHOOSE i \in at : \A j \in at : i <= j

RECURSIVE Concat(_)
Concat(ss) == IF ss = <<>> THEN <<>> ELSE Head(ss) \o Concat(Tail(ss))

\* str(n) for n >= 0
RECURSIVE Decimal(_)
Decimal(n) ==
    IF n < 10 THEN <<DigitSeq[n + 1]>>
    ELSE Decimal(n \div 10) \o <<DigitSeq[(n % 10) + 1]>>

ToLowerChar(c) ==
    IF c \in UpperLetters
    THEN LowerSeq[CHOOSE k \in 1..Len(UpperSeq) : UpperSeq[k] = c]
    ELSE c

\* the case folding of (?i), on ASCII
ToLower(s) == [k \in 1..Len(s) |-> ToLowerChar(s[k])]

\* value.strip()
RECURSIVE LStrip(_)
LStrip(s) ==
    IF s # <<>> /\ Head(s) \in Whitespace THEN LStrip(Tail(s)) ELSE s

RECURSIVE RStrip(_)
RStrip(s) ==
    IF s # <<>> /\ s[Len(s)] \in Whitespace
    THEN RStrip(SubSeq(s, 1, Len(s) - 1)) ELSE s

strip(s) == RStrip(LStrip(s))

\* text.splitlines(): the lines without their line boundaries; "\r\n" is one
\* boundary; no empty last line after a final boundary.
RECURSIVE splitlines(_)
splitlines(t) ==
    IF t = <<>> THEN <<>>
    ELSE LET brk == {k \in 1..Len(t) : t[k] \in LineBreaks}
         IN IF brk = {} THEN <<t>>
            ELSE LET k == CHOOSE b \in brk : \A c \in brk : b <= c
                     n == IF t[k] = "\r" /\ k < Len(t) /\ t[k + 1] = "\n"
                          THEN k + 1 ELSE k
                 IN <<SubSeq(t, 1, k - 1)>>
                        \o splitlines(SubSeq(t, n + 1, Len(t)))

---------------------------------------------------------------------------
(* The pattern registry *)

TokenPattern(id, prefixes, cls, lo, hi) ==
    [pattern_id |-> id, kind |-> "token", prefixes |-> prefixes,
     cls |-> cls, lo |-> lo, hi |-> hi]

\* \b PREFIX [cls]{lo,hi} \b ; hi = 0 stands for {lo,}
PATTERNS == <<
    TokenPattern("aws_access_key_id_akia", {<<"A","K","I","A">>},
                 Digits \cup UpperLetters, 16, 16),
    TokenPattern("aws_access_key_id_asia", {<<"A","S","I","A">>},
                 Digits \cup UpperLetters, 16, 16),
    TokenPattern("github_token_ghp", {<<"g","h","p","_">>}, AlphaNum, 36, 36),
    TokenPattern("github_token_gho", {<<"g","h","o","_">>}, AlphaNum, 36, 36),
    TokenPattern("github_token_ghu", {<<"g","h","u","_">>}, AlphaNum, 36, 36),
    TokenPattern("github_token_ghs", {<<"g","h","s","_">>}, AlphaNum, 36, 36),
    TokenPattern("github_pat", {<<"g","i","t","h","u","b","_","p","a","t","_">>}, AlphaNum \cup {"_"}, 80, 120),
    TokenPattern("gitlab_pat", {<<"g","l","p","a","t","-">>}, AlphaNum \cup {"_", "-"}, 20, 0),
    TokenPattern("slack_token_xox",
                 {<<"x","o","x","b","-">>, <<"x","o","x","a","-">>, <<"x","o","x","p","-">>, <<"x","o","x","r","-">>, <<"x","o","x","s","-">>},
                 AlphaNum \cup {"-"}, 10, 0),
    TokenPattern("slack_token_xapp", {<<"x","a","p","p","-">>}, AlphaNum \cup {"-"}, 10, 0),
    TokenPattern("stripe_secret_key", {<<"s","k","_","l","i","v","e","_">>, <<"s","k","_","t","e","s","t","_">>}, AlphaNum, 20, 0),
    TokenPattern("stripe_restricted_key", {<<"r","k","_","l","i","v","e","_">>, <<"r","k","_","t","e","s","t","_">>},
                 AlphaNum, 20, 0),
    TokenPattern("google_api_key", {<<"A","I","z","a">>}, AlphaNum \cup {"-", "_"}, 35, 35),
    TokenPattern("twilio_secret", {<<"S","K">>}, HexDigits, 32, 32),
    TokenPattern("twilio_account_sid", {<<"A","C">>}, HexDigits, 32, 32),
    [pattern_id |-> "generic_assignment", kind |-> "assignment",
     prefixes |-> {<<"p","a","s","s","w","o","r","d">>, <<"p","a","s","s","w","d">>, <<"p","w","d">>, <<"s","e","c","r","e","t">>,
                   <<"a","p","i","_","k","e","y">>, <<"a","p","i","-","k","e","y">>, <<"a","p","i","k","e","y">>,
                   <<"a","c","c","e","s","s","_","t","o","k","e","n">>, <<"a","c","c","e","s","s","-","t","o","k","e","n">>, <<"a","c","c","e","s","s","t","o","k",
                                                     "e","n">>},
     cls |-> Quotes \cup {"\n"}, lo |-> 8, hi |-> 0]
>>

PRIVATE_KEY_BEGIN_PATTERNS == <<
    <<"-","-","-","-","-","B","E","G","I","N"," ","P","R","I","V","A","T","E"," ","K",
      "E","Y","-","-","-","-","-">>,
    <<"-","-","-","-","-","B","E","G","I","N"," ","R","S","A"," ","P","R","I","V","A",
      "T","E"," ","K","E","Y","-","-","-","-","-">>,
    <<"-","-","-","-","-","B","E","G","I","N"," ","E","C"," ","P","R","I","V","A","T",
      "E"," ","K","E","Y","-","-","-","-","-">>,
    <<"-","-","-","-","-","B","E","G","I","N"," ","D","S","A"," ","P","R","I","V","A",
      "T","E"," ","K","E","Y","-","-","-","-","-">>,
    <<"-","-","-","-","-","B","E","G","I","N"," ","O","P","E","N","S","S","H"," ","P",
      "R","I","V","A","T","E"," ","K","E","Y","-","-","-","-","-">>
>>

---------------------------------------------------------------------------
(* Regular-expression matching: regex.finditer(line) *)

IsWordAt(s, k) == k >= 1 /\ k <= Len(s) /\ s[k] \in WordChars

\* \b between s[i] and s[i+1], for i in 0..Len(s)
IsBoundary(s, i) == IsWordAt(s, i) # IsWordAt(s, i + 1)

\* the number of consecutive characters of cls from position j on
RECURSIVE RunLen(_, _, _)
RunLen(s, j, cls) ==
    IF j <= Len(s) /\ s[j] \in cls THEN 1 + RunLen(s, j + 1, cls) ELSE 0

\* the number of consecutive characters not in cls from position j on
RECURSIVE RunLenNot(_, _, _)
RunLenNot(s, j, cls) ==
    IF j <= Len(s) /\ s[j] \notin cls THEN 1 + RunLenNot(s, j + 1, cls) ELSE 0

\* The match of \bPREFIX[cls]{lo,hi}\b that starts at position i: the position
\* of its last character, or 0. The repetition is greedy and backtracks to
\* the longest count after which \b holds.
TokenEndAt(pat, s, i) ==
    IF ~IsBoundary(s, i - 1) THEN 0
    ELSE LET ps == {p \in pat.prefixes :
                       i + Len(p) - 1 <= Len(s)
                       /\ SubSeq(s, i, i + Len(p) - 1) = p}
         IN IF ps = {} THEN 0
            ELSE LET p == CHOOSE q \in ps : TRUE
                     j == i + Len(p)
                     run == RunLen(s, j, pat.cls)
                     cap == IF pat.hi > 0 /\ run > pat.hi THEN pat.hi ELSE run
                     ks == {k \in pat.lo..cap : IsBoundary(s, j + k - 1)}
                 IN IF ks = {} THEN 0 ELSE j + Max(ks) - 1

\* The match of (?i)\b(keyword)\b\s*[:=]\s*['"][^'"\n]{8,}['"] that starts
\* at position i: the position of its last character, or 0. No keyword
\* alternative is a prefix of another, so at most one applies at i; \s* is
\* followed by a character that is not whitespace, so it takes the whole run.
AssignmentEndAt(pat, s, i) ==
    IF ~IsBoundary(s, i - 1) THEN 0
    ELSE LET kws == {kw \in pat.prefixes :
                        i + Len(kw) - 1 <= Len(s)
                        /\ ToLower(SubSeq(s, i, i + Len(kw) - 1)) = kw
                        /\ IsBoundary(s, i + Len(kw) - 1)}
         IN IF kws = {} THEN 0
            ELSE LET kw == CHOOSE k \in kws : TRUE
                     a == i + Len(kw)
                     b == a + RunLen(s, a, Whitespace)
                 IN IF ~(b <= Len(s) /\ s[b] \in {":", "="}) THEN 0
                    ELSE LET c == b + 1 + RunLen(s, b + 1, Whitespace)
                         IN IF ~(c <= Len(s) /\ s[c] \in Quotes) THEN 0
                            ELSE LET run == RunLenNot(s, c + 1, pat.cls)
                                     ks == {k \in pat.lo..run :
                                               c + k + 1 <= Len(s)
                                               /\ s[c + k + 1] \in Quotes}
                                 IN IF ks = {} THEN 0 ELSE c + Max(ks) + 1

MatchEndAt(pat, s, i) ==
    IF pat.kind = "token" THEN TokenEndAt(pat, s, i)
    ELSE AssignmentEndAt(pat, s, i)

\* pat.regex.finditer(s) from position i on: the matches, leftmost first,
\* not overlapping; each is [start, stop] (1-based, inclusive).
RECURSIVE finditer(_, _, _)
finditer(pat, s, i) ==
    IF i > Len(s) THEN <<>>
    ELSE LET e == MatchEndAt(pat, s, i)
         IN IF e > 0
            THEN <<[start |-> i, stop |-> e]>> \o finditer(pat, s, e + 1)
            ELSE finditer(pat, s, i + 1)

---------------------------------------------------------------------------
(* The identity and preview engine *)

\* hashlib.sha256(s.encode("utf-8")).hexdigest(), idealised as collision
\* free: the digest of s is a value that determines s and nothing else.
sha256_hex(s) == <<"sha256", s>>

REDACTED == <<"<","r","e","d","a","c","t","e","d",">">>
ELLIPSIS == <<".",".",".">>

preview_unredacted(v) ==
    IF Len(strip(v)) <= 8 THEN REDACTED ELSE strip(v)

preview(v) ==
    LET s == strip(v)
    IN IF Len(s) <= 8 THEN REDACTED
       ELSE Slice(s, 0, 4) \o ELLIPSIS \o Slice(s, Len(s) - 4, Len(s))

\* f"{rel_path}:{idx}:{match}"
HashInput(file_path, line, match) ==
    file_path \o <<":">> \o Decimal(line) \o <<":">> \o match

---------------------------------------------------------------------------
(* The line scanner: scan_text *)

\* the private-key header literals found in the line, in registry order
RECURSIVE LiteralHits(_, _)
LiteralHits(line, k) ==
    IF k > Len(PRIVATE_KEY_BEGIN_PATTERNS) THEN <<>>
    ELSE LET begin == PRIVATE_KEY_BEGIN_PATTERNS[k]
         IN (IF Contains(line, begin)
             THEN <<[pattern_id |-> "private_key_block", match |-> begin,
                     start |-> FirstIndex(line, begin)]>>
             ELSE <<>>) \o LiteralHits(line, k + 1)

\* the matches of the regular expressions in the line, pattern by pattern
RECURSIVE RegexHits(_, _)
RegexHits(line, k) ==
    IF k > Len(PATTERNS) THEN <<>>
    ELSE LET pat == PATTERNS[k]
             ms == finditer(pat, line, 1)
         IN [n \in 1..Len(ms) |->
                [pattern_id |-> pat.pattern_id,
                 match |-> SubSeq(line, ms[n].start, ms[n].stop),
                 start |-> ms[n].start]]
            \o RegexHits(line, k + 1)

\* what one line matches, in the order scan_text appends the findings
LineHits(line) == LiteralHits(line, 1) \o RegexHits(line, 1)

FindingOf_position(file_path, line, hit) ==
    [file_path |-> file_path, line |-> line, pattern_id |-> hit.pattern_id,
     match_preview |-> preview(hit.match), match_len |-> Len(hit.match),
     finding_id |->
        sha256_hex(HashInput(file_path \o <<":">> \o Decimal(hit.start),
                             line, hit.match))]

\* Finding(file_path=rel_path, line=idx, pattern_id=..., match_preview=...,
\*         match_len=..., finding_id=fid)
FindingOf(file_path, line, hit) ==
    [file_path |-> file_path, line |-> line, pattern_id |-> hit.pattern_id,
     match_preview |-> preview(hit.match), match_len |-> Len(hit.match),
     finding_id |-> sha256_hex(HashInput(file_path, line, hit.match))]

LineFindings(file_path, line_no, line) ==
    LET hs == LineHits(line)
    IN [n \in 1..Len(hs) |-> FindingOf(file_path, line_no, hs[n])]

RECURSIVE ScanLinesFrom(_, _, _)
ScanLinesFrom(file_path, lines, k) ==
    IF k > Len(lines) THEN <<>>
    ELSE LineFindings(file_path, k, lines[k])
            \o ScanLinesFrom(file_path, lines, k + 1)

scan_text(file_path, t) == ScanLinesFrom(file_path, splitlines(t), 1)

---------------------------------------------------------------------------
(* Paths and the file system *)

\* os.getcwd()
CWD == <<"/","w">>

\* the directories below the working directory, by their path relative to
\* it, each with what os.scandir lists in it
TreeDirs ==
    (<<".">> :> [dirs |-> <<<<"d">>>>, files |-> <<<<"f">>>>])
    @@ (<<"d">> :> [dirs |-> <<<<"e">>>>, files |-> <<<<"f">>>>])
    @@ (<<"d","/","e">> :> [dirs |-> <<>>, files |-> <<<<"f">>>>])

\* the regular files below the working directory
TreeFiles == {<<"f">>, <<"d","/","f">>, <<"d","/","e","/","f">>}

\* the number of components of an absolute path
Depth(p) == Cardinality({k \in 1..Len(p) : p[k] = "/"})

RECURSIVE Repeat(_, _)
Repeat(s, n) == IF n = 0 THEN <<>> ELSE s \o Repeat(s, n - 1)

\* os.path.normpath of a relative path written with "./" and a final "/"
RECURSIVE NormRelative(_)
NormRelative(p) ==
    IF StartsWith(p, <<".","/">>) THEN NormRelative(SubSeq(p, 3, Len(p)))
    ELSE IF Len(p) > 1 /\ p[Len(p)] = "/"
         THEN NormRelative(SubSeq(p, 1, Len(p) - 1))
    ELSE IF p = <<>> THEN <<".">>
    ELSE p

\* os.path.relpath(p, cwd)
relpath(p) ==
    IF p # <<>> /\ p[1] = "/"
    THEN IF p = CWD THEN <<".">>
         ELSE IF StartsWith(p, CWD \o <<"/">>)
              THEN SubSeq(p, Len(CWD) + 2, Len(p))
         ELSE Repeat(<<".",".","/">>, Depth(CWD)) \o SubSeq(p, 2, Len(p))
    ELSE NormRelative(p)

\* os.path.join(a, b) for a relative b
join(a, b) == IF a # <<>> /\ a[Len(a)] = "/" THEN a \o b ELSE a \o <<"/">> \o b

isdir(p) == relpath(p) \in DOMAIN TreeDirs
isfile(files, p) == relpath(p) \in DOMAIN files
exists(files, p) == isdir(p) \/ isfile(files, p)

\* rel_path.replace("\\", "/")
normalized(p) == [k \in 1..Len(p) |-> IF p[k] = "\\" THEN "/" ELSE p[k]]

is_excluded(rp, prefixes) ==
    \E k \in 1..Len(prefixes) : StartsWith(normalized(rp), prefixes[k])

RECURSIVE Reverse(_)
Reverse(s) == IF s = <<>> THEN <<>> ELSE Reverse(Tail(s)) \o <<Head(s)>>

---------------------------------------------------------------------------
(* scan_paths: load_allowlist, then the loop over iter_files *)

\* with open(full, "rb") ...; raw.decode("utf-8"): the text, or nothing when
\* the file cannot be opened or read or is not UTF-8
ReadText_lenient(file) ==
    IF file.status = "unreadable" THEN [ok |-> FALSE, text |-> <<>>]
    ELSE [ok |-> TRUE, text |-> file.content]

ReadText(file) ==
    IF file.status = "ok" THEN [ok |-> TRUE, text |-> file.content]
    ELSE [ok |-> FALSE, text |-> <<>>]

\* for finding in ...: if finding.finding_id in allowed: continue
NotAllowed_break(fds, ids) ==
    LET hit == {k \in 1..Len(fds) : fds[k].finding_id \in ids}
    IN IF hit = {} THEN fds
       ELSE SubSeq(fds, 1, (CHOOSE k \in hit : \A m \in hit : k <= m) - 1)

NotAllowed(fds, ids) ==
    SelectSeq(fds, LAMBDA finding : finding.finding_id \notin ids)

\* exclude_dir_prefixes, allowed = load_allowlist(allowlist_path)
LoadAllowlist ==
    /\ pc = "scan_paths"
    /\ IF allowlist_file.state = "ok"
       THEN /\ exclude_dir_prefixes' = allowlist_file.exclude_dir_prefixes
            /\ allowed' = allowlist_file.allowlisted_finding_ids
            /\ pc' = "iter"
       ELSE \* json.load raises; nothing catches it
            /\ pc' = "raised"
            /\ UNCHANGED <<exclude_dir_prefixes, allowed>>
    /\ UNCHANGED <<previewVars, encodeVars, scanVars, argVars, walkVars>>
    /\ UNCHANGED <<fs, consumed, out, exit_code, printed, opened>>

\* iter_files is a generator: it runs on only when scan_paths asks for the
\* next file, that is when every file it has yielded is consumed.
Resumed == pc = "iter" /\ consumed = Len(yielded)

\* "for p in paths": the next root. A file is yielded unless excluded; a
\* directory starts os.walk(p), whose stack holds p.
IterNextPath ==
    /\ Resumed
    /\ stack = <<>>
    /\ path_i < Len(paths)
    /\ LET p == paths[path_i + 1]
           rp == relpath(p)
       IN IF ~exists(fs, p) THEN UNCHANGED <<stack, yielded, yielded_for>>
          ELSE IF isfile(fs, p)
          THEN /\ IF is_excluded(rp, exclude_dir_prefixes)
                  THEN UNCHANGED <<yielded, yielded_for>>
                  ELSE /\ yielded' =
                            Append(yielded, [full |-> p, rel_path |-> rp])
                       /\ yielded_for' = Append(yielded_for, path_i + 1)
               /\ UNCHANGED stack
          ELSE /\ stack' = <<p>>
               /\ UNCHANGED <<yielded, yielded_for>>
    /\ path_i' = path_i + 1
    /\ UNCHANGED <<previewVars, encodeVars, scanVars, argVars, enumerated>>
    /\ UNCHANGED procVars

\* One round of "for root, dirs, files in os.walk(p)". os.walk pops a
\* directory, lists it with scandir and only then hands (root, dirs, files)
\* to the loop body; after the body it pushes what the body left in dirs.
WalkStep ==
    /\ Resumed
    /\ stack # <<>>
    /\ LET root == stack[Len(stack)]
           rest == SubSeq(stack, 1, Len(stack) - 1)
           rp_root == relpath(root)
           listing == TreeDirs[rp_root]
           kept == SelectSeq(listing.dirs,
                             LAMBDA d : ~is_excluded(relpath(join(root, d)) \o <<"/">>,
                                                  exclude_dir_prefixes))
           named == [k \in 1..Len(listing.files) |->
                        [full |-> join(root, listing.files[k]),
                         rel_path |-> relpath(join(root, listing.files[k]))]]
           files == SelectSeq(named,
                        LAMBDA y : ~is_excluded(y.rel_path, exclude_dir_prefixes))
       IN /\ enumerated' = enumerated \cup {rp_root}
          /\ IF is_excluded(rp_root \o <<"/">>, exclude_dir_prefixes)
             THEN /\ stack' = rest
                  /\ UNCHANGED <<yielded, yielded_for>>
             ELSE /\ stack' =
                        rest \o Reverse([k \in 1..Len(kept) |-> join(root, kept[k])])
                  /\ yielded' = yielded \o files
                  /\ yielded_for' =
                        yielded_for \o [k \in 1..Len(files) |-> path_i]
    /\ UNCHANGED <<previewVars, encodeVars, scanVars, argVars, path_i>>
    /\ UNCHANGED procVars

\* The body of "for full, rel_path in iter_files(...)" for one file.
ScanFile ==
    /\ pc = "iter"
    /\ consumed < Len(yielded)
    /\ LET y == yielded[consumed + 1]
           got == ReadText(fs[relpath(y.full)])
       IN /\ opened' = opened \cup {y.full}
          /\ out' = IF got.ok
                    THEN out \o NotAllowed(scan_text(y.rel_path, got.text), allowed)
                    ELSE out
    /\ consumed' = consumed + 1
    /\ UNCHANGED <<previewVars, encodeVars, scanVars, argVars, walkVars>>
    /\ UNCHANGED <<pc, fs, exclude_dir_prefixes, allowed, exit_code, printed>>

\* iter_files is exhausted: return out
ScanPathsReturn ==
    /\ Resumed
    /\ stack = <<>>
    /\ path_i = Len(paths)
    /\ pc' = "returned"
    /\ UNCHANGED <<previewVars, encodeVars, scanVars, argVars, walkVars>>
    /\ UNCHANGED <<fs, exclude_dir_prefixes, allowed, consumed, out,
                   exit_code, printed, opened>>

---------------------------------------------------------------------------
(* main and cmd_self_check *)

PRINT_LIMIT == 200

\* fake = "ghp_" + ("a" * 36)
FAKE == <<"g","h","p","_">> \o Repeat(<<"a">>, 36)

\* json.dumps({"message": f"Authorization: Bearer {fake}"}) + "\n"
SelfCheckText == <<"{","\"","m","e","s","s","a","g","e","\"",":"," ","\"","A","u","t",
                   "h","o","r","i","z","a","t","i","o","n",":"," ","B","e","a","r","e",
                   "r"," ">> \o FAKE \o <<"\"","}","\n">>

\* what tempfile.TemporaryDirectory() may name the directory
TempDirs == {<<"/","t","m","p","/","t","m","p","a">>, <<"/","t","m","p","/","t","m","p","b">>}

Message(t) == [kind |-> "message", text |-> t]

\* f"{f.file_path}:{f.line}: {f.pattern_id} id={f.finding_id}
\*    len={f.match_len} preview={f.match_preview}"
FindingLine(f) ==
    [kind |-> "finding", file_path |-> f.file_path, line |-> Decimal(f.line),
     pattern_id |-> f.pattern_id, id |-> f.finding_id,
     len |-> Decimal(f.match_len), preview |-> f.match_preview]

ExitCodeFor_count(fds) == Len(fds)

\* "if not findings: ... return 0", and "return 1" after the listing
ExitCodeFor(fds) == IF fds = <<>> THEN 0 ELSE 1

\* The start of main, after parse_args.
MainCheckAllowlist ==
    /\ pc = "main"
    /\ IF allowlist_file.state = "missing"
       THEN /\ printed' = Append(printed,
                [kind |-> "stderr", text |-> <<"E","r","r","o","r",":"," ","a","l","l",
                                               "o","w","l","i","s","t"," ","n","o","t",
                                               " ","f","o","u","n","d">>])
            /\ exit_code' = 2
            /\ pc' = "exit"
       ELSE /\ pc' = IF self_check THEN "self_check" ELSE "scan_paths"
            /\ UNCHANGED <<printed, exit_code>>
    /\ UNCHANGED <<previewVars, encodeVars, scanVars, argVars, walkVars>>
    /\ UNCHANGED <<fs, exclude_dir_prefixes, allowed, consumed, out, opened>>

\* cmd_self_check up to the call scan_paths([p], allowlist): the sample file
\* is written into a new temporary directory.
SelfCheckSetup ==
    /\ pc = "self_check"
    /\ \E td \in TempDirs :
        LET p == join(td, <<"s","a","m","p","l","e",".","n","d","j","s","o","n">>)
        IN /\ fs' = fs @@ (relpath(p) :>
                        [status |-> "ok", content |-> SelfCheckText])
           /\ paths' = <<p>>
    /\ pc' = "scan_paths"
    /\ UNCHANGED <<previewVars, encodeVars, scanVars, walkVars>>
    /\ UNCHANGED <<self_check, allowlist_file, exclude_dir_prefixes, allowed,
                   consumed, out, exit_code, printed, opened>>

\* cmd_self_check after scan_paths returned; leaving the with block removes
\* the temporary directory.
SelfCheckVerdict ==
    /\ pc = "returned"
    /\ self_check
    /\ IF out = <<>>
       THEN /\ printed' = Append(printed,
                Message(<<"[","s","e","c","r","e","t","-","s","c","a","n","]"," ","s",
                          "e","l","f","-","c","h","e","c","k"," ","F","A","I","L",":",
                          " ","e","x","p","e","c","t","e","d"," ","a"," ","f","i","n",
                          "d","i","n","g">>))
            /\ exit_code' = 1
       ELSE IF \E k \in 1..Len(out) : Contains(out[k].match_preview, FAKE)
       THEN /\ printed' = Append(printed,
                Message(<<"[","s","e","c","r","e","t","-","s","c","a","n","]"," ","s",
                          "e","l","f","-","c","h","e","c","k"," ","F","A","I","L",":",
                          " ","p","r","e","v","i","e","w"," ","l","e","a","k","e","d",
                          " ","f","u","l","l"," ","t","o","k","e","n">>))
            /\ exit_code' = 1
       ELSE /\ printed' = Append(printed, Message(<<"[","s","e","c","r","e","t","-","s",
                                                    "c","a","n","]"," ","s","e","l","f",
                                                    "-","c","h","e","c","k"," ","O","K">>))
            /\ exit_code' = 0
    /\ fs' = [n \in DOMAIN fs \ {relpath(paths[1])} |-> fs[n]]
    /\ pc' = "exit"
    /\ UNCHANGED <<previewVars, encodeVars, scanVars, argVars, walkVars>>
    /\ UNCHANGED <<exclude_dir_prefixes, allowed, consumed, out, opened>>

\* main after findings = scan_paths(args.paths, args.allowlist)
MainReport ==
    /\ pc = "returned"
    /\ ~self_check
    /\ LET shown == Slice(out, 0, PRINT_LIMIT)
       IN printed' =
            IF out = <<>> THEN Append(printed, Message(<<"[","s","e","c","r","e","t","-","s",
                                                         "c","a","n","]"," ","O","K">>))
            ELSE printed
                 \o <<[kind |-> "summary", findings |-> Decimal(Len(out))]>>
                 \o [k \in 1..Len(shown) |-> FindingLine(shown[k])]
                 \o (IF Len(out) > PRINT_LIMIT
                     THEN <<[kind |-> "truncated", total |-> Decimal(Len(out))]>>
                     ELSE <<>>)
    /\ exit_code' = ExitCodeFor(out)
    /\ pc' = "exit"
    /\ UNCHANGED <<previewVars, encodeVars, scanVars, argVars, walkVars>>
    /\ UNCHANGED <<fs, exclude_dir_prefixes, allowed, consumed, out, opened>>

---------------------------------------------------------------------------
(* Inputs of the pure functions and of scan_text *)

MaxValueLen == 11
MaxFieldLen == 3
MaxLineNo == 12
MaxPieces == 3

StringsOver(alphabet, lo, hi) == UNION {[1..n -> alphabet] : n \in lo..hi}

PreviewInputs == StringsOver({"a", ".", " "}, 0, MaxValueLen)

Triples ==
    [file_path : StringsOver({"a", "1", ":"}, 1, MaxFieldLen),
     line : 1..MaxLineNo,
     matched_text : StringsOver({"a", "1", ":"}, 0, MaxFieldLen)]

\* one text per matcher of the registry, and texts no matcher accepts
ScanExamples == {
    <<"A","K","I","A","I","O","S","F","O","D","N","N","7","E","X","A","M","P","L","E">>,
    <<"k","e","y"," ","A","S","I","A","I","O","S","F","O","D","N","N","7","E","X","A",
      "M","P","L","E","\n","n","e","x","t">>,
    <<"A","u","t","h","o","r","i","z","a","t","i","o","n",":"," ","B","e","a","r","e",
      "r"," ","g","h","p","_","a","a","a","a","a","a","a","a","a","a","a","a","a","a",
      "a","a","a","a","a","a","a","a","a","a","a","a","a","a","a","a","a","a","a","a",
      "a","a">>,
    <<"g","h","o","_","0","1","2","3","4","5","6","7","8","9","a","b","c","d","e","f",
      "g","h","i","j","A","B","C","D","E","F","G","H","I","J","0","1","2","3","4","5">>,
    <<"g","h","u","_","0","1","2","3","4","5","6","7","8","9","a","b","c","d","e","f",
      "g","h","i","j","A","B","C","D","E","F","G","H","I","J","0","1","2","3","4","5",
      ",","g","h","s","_","0","1","2","3","4","5","6","7","8","9","a","b","c","d","e",
      "f","g","h","i","j","A","B","C","D","E","F","G","H","I","J","0","1","2","3","4",
      "5">>,
    <<"g","i","t","h","u","b","_","p","a","t","_","1","1","A","B","C","D","E","F","G",
      "0","a","b","c","d","e","f","g","h","i","j","_","0","1","2","3","4","5","6","7",
      "8","9","A","B","C","D","E","F","G","H","I","J","a","b","c","d","e","f","g","h",
      "i","j","0","1","2","3","4","5","6","7","8","9","A","B","C","D","E","F","G","H",
      "I","J","a","b","c","d","e","f","g","h","i","j","0","1","2","3","4","5","6","7",
      "8","9">>,
    <<"g","l","p","a","t","-","a","b","c","d","e","f","g","h","i","j","_","0","1","2",
      "3","4","5","6","7","8","9","-"," ">>,
    <<"x","o","x","b","-","1","2","3","4","5","6","7","8","9","0","1","2","-","a","b",
      "c","d","e","f"," ","x","o","x","q","-","1","2","3","4","5","6","7","8","9","0",
      "1","2","-","a","b","c","d","e","f">>,
    <<"x","a","p","p","-","1","-","A","0","1","2","3","4","5","6","7","8","9">>,
    <<"s","k","_","l","i","v","e","_","0","1","2","3","4","5","6","7","8","9","a","b",
      "c","d","e","f","g","h","i","j","K","L",";","r","k","_","t","e","s","t","_","0",
      "1","2","3","4","5","6","7","8","9","a","b","c","d","e","f","g","h","i","j","K",
      "L">>,
    <<"A","I","z","a","S","y","A","-","0","1","2","3","4","5","6","7","8","9","_","a",
      "b","c","d","e","f","g","h","i","j","A","B","C","D","E","F","G","H","I","J">>,
    <<"S","K","0","1","2","3","4","5","6","7","8","9","a","b","c","d","e","f","A","B",
      "C","D","E","F","0","1","2","3","4","5","6","7","8","9"," ","A","C","0","1","2",
      "3","4","5","6","7","8","9","a","b","c","d","e","f","A","B","C","D","E","F","0",
      "1","2","3","4","5","6","7","8","9">>,
    <<"P","A","S","S","W","O","R","D"," ","="," ","\"","h","u","n","t","e","r","2"," ",
      "h","u","n","t","e","r","2","\"">>,
    <<"a","p","i","-","k","e","y",":","'","0","1","2","3",":","a","b","c","'","\r","\n",
      "A","c","c","e","s","s","_","T","o","k","e","n","=","\"","1","2","3","4","5","6",
      "7","8","\""," ","s","e","c","r","e","t","=","'","s","h","o","r","t","'">>,
    <<"-","-","-","-","-","B","E","G","I","N"," ","P","R","I","V","A","T","E"," ","K",
      "E","Y","-","-","-","-","-">>,
    <<" "," ","-","-","-","-","-","B","E","G","I","N"," ","E","C"," ","P","R","I","V",
      "A","T","E"," ","K","E","Y","-","-","-","-","-","\n","-","-","-","-","-","B","E",
      "G","I","N"," ","D","S","A"," ","P","R","I","V","A","T","E"," ","K","E","Y","-",
      "-","-","-","-">>,
    <<"-","-","-","-","-","B","E","G","I","N"," ","O","P","E","N","S","S","H"," ","P",
      "R","I","V","A","T","E"," ","K","E","Y","-","-","-","-","-"," ","-","-","-","-",
      "-","B","E","G","I","N"," ","O","P","E","N","S","S","H"," ","P","R","I","V","A",
      "T","E"," ","K","E","Y","-","-","-","-","-">>,
    <<"A","K","I","A","I","O","S","F","O","D","N","N","7","E","X","A","M","P","L","E",
      "X">>,
    <<"x","A","K","I","A","I","O","S","F","O","D","N","N","7","E","X","A","M","P","L",
      "E">>,
    <<"p","a","s","s","w","o","r","d","s"," ","="," ","\"","h","u","n","t","e","r","2",
      "h","u","n","t","e","r","2","\"">>
}

\* pieces that are put together into texts, up to MaxPieces of them
ScanFragments == {
    <<" ">>, <<"\n">>, <<"x">>, <<"A","K","I","A","I","O","S","F","O","D","N","N","7","E","X","A",
                      "M","P","L","E">>, <<"p","w","d","=","\"","a",":","1",":","b",
                                              "c","d","e","f","g","\"">>,
    <<"-","-","-","-","-","B","E","G","I","N"," ","R","S","A"," ","P","R","I","V","A",
      "T","E"," ","K","E","Y","-","-","-","-","-">>
}

ScanTexts ==
    ScanExamples
    \cup {Concat(ps) : ps \in StringsOver(ScanFragments, 0, MaxPieces)}

ScanRelPaths == {<<"f">>, <<"d","/","f">>}

NoTriple == [file_path |-> <<>>, line |-> 0, matched_text |-> <<>>]

PreviewIdle == value = <<>> /\ result = <<>>
EncodeIdle == triple = NoTriple /\ encoded = <<>>
ScanIdle ==
    rel_path = <<>> /\ text = <<>> /\ idx = 0 /\ findings = <<>> /\ hits = <<>>
---------------------------------------------------------------------------
(* Inputs of the process *)

MaxRoots == 2
MaxPrefixes == 2
MaxAllowed == 2

File(status, content) == [status |-> status, content |-> content]

TextSecrets ==
    <<"A","K","I","A","I","O","S","F","O","D","N","N","7","E","X","A","M","P","L","E",
      "\n","p","w","d","=","\"","a",":","1",":","b","c","d","e","f","g","\""," ","-",
      "-","-","-","-","B","E","G","I","N"," ","R","S","A"," ","P","R","I","V","A","T",
      "E"," ","K","E","Y","-","-","-","-","-">>
TextKey == <<"A","K","I","A","I","O","S","F","O","D","N","N","7","E","X","A","M","P",
             "L","E">>
TextClean == <<"c","l","e","a","n">>

FileChoices ==
    {File("ok", TextSecrets), File("ok", TextClean),
     File("unreadable", TextSecrets), File("undecodable", TextSecrets)}

\* the finding_id scan_text gives a match (lines 140 and 155)
IdOf(file_path, line, match) == sha256_hex(HashInput(file_path, line, match))

\* the ids an allowlist may name: those of the findings of the files and of
\* the self-check's sample
IdPool ==
    {IdOf(<<"f">>, 1, TextKey),
     IdOf(<<"f">>, 2, <<"p","w","d","=","\"","a",":","1",":","b","c","d","e","f","g","\"">>),
     IdOf(<<"f">>, 2, <<"-","-","-","-","-","B","E","G","I","N"," ","R","S","A"," ","P","R",
                    "I","V","A","T","E"," ","K","E","Y","-","-","-","-","-">>),
     IdOf(<<"d","/","f">>, 1, TextKey)}
    \cup {IdOf(relpath(join(td, <<"s","a","m","p","l","e",".","n","d","j","s","o","n">>)), 1, FAKE) :
             td \in TempDirs}

AllowedSets == {S \in SUBSET IdPool : Cardinality(S) <= MaxAllowed}

Config(prefixes, ids) ==
    [state |-> "ok", exclude_dir_prefixes |-> prefixes,
     allowlisted_finding_ids |-> ids]

NoConfig(state) ==
    [state |-> state, exclude_dir_prefixes |-> <<>>,
     allowlisted_finding_ids |-> {}]

RootChoices == {<<".">>, <<"d">>, <<".","/","d">>, <<"d","/","e">>, <<"f">>, <<"n","o","p","e">>}
RootsBelow == RootChoices \ {<<".">>}
PrefixChoices == {<<".">>, <<".","/">>, <<"d","/">>, <<"d">>, <<"d","/","e","/">>, <<"d","/","e">>, <<"e","/">>, <<"d","/","f">>}

NotStarted ==
    /\ exclude_dir_prefixes = <<>> /\ allowed = {}
    /\ path_i = 0 /\ stack = <<>> /\ yielded = <<>> /\ consumed = 0
    /\ out = <<>> /\ exit_code = -1 /\ printed = <<>>
    /\ enumerated = {} /\ opened = {} /\ yielded_for = <<>>

ProcessIdle ==
    /\ self_check = FALSE /\ allowlist_file = NoConfig("missing")
    /\ paths = <<>> /\ fs = <<>>
    /\ NotStarted

---------------------------------------------------------------------------
(* preview as a function of any string *)

InitPreview ==
    /\ pc = "preview"
    /\ value \in PreviewInputs
    /\ result = <<>>
    /\ EncodeIdle /\ ScanIdle /\ ProcessIdle

CallPreview ==
    /\ pc = "preview"
    /\ result' = preview(value)
    /\ pc' = "done"
    /\ UNCHANGED <<value, encodeVars, scanVars, argVars, walkVars>>
    /\ UNCHANGED <<fs, exclude_dir_prefixes, allowed, consumed, out,
                   exit_code, printed, opened>>

NextPreview == CallPreview

SpecPreview == InitPreview /\ [][NextPreview]_vars

(* the hashed string as a function of any triple *)

InitEncode ==
    /\ pc = "encode"
    /\ triple \in Triples
    /\ encoded = <<>>
    /\ PreviewIdle /\ ScanIdle /\ ProcessIdle

CallEncode ==
    /\ pc = "encode"
    /\ encoded' = HashInput(triple.file_path, triple.line, triple.matched_text)
    /\ pc' = "done"
    /\ UNCHANGED <<triple, previewVars, scanVars, argVars, walkVars>>
    /\ UNCHANGED <<fs, exclude_dir_prefixes, allowed, consumed, out,
                   exit_code, printed, opened>>

NextEncode == CallEncode

SpecEncode == InitEncode /\ [][NextEncode]_vars

(* scan_text, one line of the text per step *)

InitScan ==
    /\ pc = "scan_text"
    /\ rel_path \in ScanRelPaths
    /\ text \in ScanTexts
    /\ idx = 0 /\ findings = <<>> /\ hits = <<>>
    /\ PreviewIdle /\ EncodeIdle /\ ProcessIdle

\* one iteration of "for idx, line in enumerate(lines, start=1)"
ScanLine ==
    /\ pc = "scan_text"
    /\ idx < Len(splitlines(text))
    /\ LET line == splitlines(text)[idx + 1]
       IN /\ findings' = findings \o LineFindings(rel_path, idx + 1, line)
          /\ hits' = hits \o LineHits(line)
    /\ idx' = idx + 1
    /\ UNCHANGED <<pc, rel_path, text, previewVars, encodeVars, argVars, walkVars>>
    /\ UNCHANGED <<fs, exclude_dir_prefixes, allowed, consumed, out,
                   exit_code, printed, opened>>

\* return findings
ScanReturn ==
    /\ pc = "scan_text"
    /\ idx = Len(splitlines(text))
    /\ pc' = "done"
    /\ UNCHANGED <<previewVars, encodeVars, scanVars, argVars, walkVars>>
    /\ UNCHANGED <<fs, exclude_dir_prefixes, allowed, consumed, out,
                   exit_code, printed, opened>>

NextScan == ScanLine \/ ScanReturn

SpecScan == InitScan /\ [][NextScan]_vars

---------------------------------------------------------------------------
(* The process *)

\* scan_paths over the whole tree, for any state of the files and any
\* allowlisted ids
InitScanPaths ==
    /\ pc = "scan_paths"
    /\ self_check = FALSE
    /\ paths = <<<<".">>>>
    /\ \E ids \in AllowedSets : allowlist_file = Config(<<>>, ids)
    /\ fs \in [TreeFiles -> FileChoices]
    /\ NotStarted
    /\ PreviewIdle /\ EncodeIdle /\ ScanIdle

NextScanPaths ==
    LoadAllowlist \/ IterNextPath \/ WalkStep \/ ScanFile \/ ScanPathsReturn

SpecScanPaths == InitScanPaths /\ [][NextScanPaths]_vars

\* scan_paths for any roots and any exclude prefixes
InitWalk ==
    /\ pc = "scan_paths"
    /\ self_check = FALSE
    /\ paths \in StringsOver(RootChoices, 0, MaxRoots)
    /\ \E prefixes \in StringsOver(PrefixChoices, 0, MaxPrefixes) :
            allowlist_file = Config(prefixes, {})
    /\ fs = [n \in TreeFiles |-> File("ok", TextKey)]
    /\ NotStarted
    /\ PreviewIdle /\ EncodeIdle /\ ScanIdle

SpecWalk == InitWalk /\ [][NextScanPaths]_vars

\* scan_paths for roots below the working directory and any exclude prefixes
InitPrune ==
    /\ pc = "scan_paths"
    /\ self_check = FALSE
    /\ paths \in StringsOver(RootsBelow, 0, MaxRoots)
    /\ \E prefixes \in StringsOver(PrefixChoices, 0, MaxPrefixes) :
            allowlist_file = Config(prefixes, {})
    /\ fs = [n \in TreeFiles |-> File("ok", TextKey)]
    /\ NotStarted
    /\ PreviewIdle /\ EncodeIdle /\ ScanIdle

SpecPrune == InitPrune /\ [][NextScanPaths]_vars

\* main, for any command line and any allowlist file
InitMain ==
    /\ pc = "main"
    /\ self_check \in BOOLEAN
    /\ paths \in {<<<<"d">>>>, <<<<"n","o","p","e">>>>, <<<<"f">>, <<"d","/","e">>>>}
    /\ allowlist_file \in
            {NoConfig("missing"), NoConfig("malformed")}
            \cup {Config(prefixes, ids) :
                      prefixes \in {<<>>, <<<<"d","/">>>>, <<<<".",".","/">>>>},
                      ids \in AllowedSets}
    /\ fs \in {[n \in TreeFiles |-> File("ok", TextSecrets)],
               [n \in TreeFiles |-> File("ok", TextClean)],
               [n \in TreeFiles |->
                    IF n = <<"f">> THEN File("unreadable", TextSecrets)
                    ELSE File("ok", TextKey)]}
    /\ NotStarted
    /\ PreviewIdle /\ EncodeIdle /\ ScanIdle

NextMain ==
    \/ MainCheckAllowlist
    \/ SelfCheckSetup
    \/ LoadAllowlist
    \/ IterNextPath
    \/ WalkStep
    \/ ScanFile
    \/ ScanPathsReturn
    \/ SelfCheckVerdict
    \/ MainReport

SpecMain == InitMain /\ [][NextMain]_vars

---------------------------------------------------------------------------
(* Properties *)

\* C1: in every Finding of scan_text, whichever matcher of the registry
\* produced it, match_preview does not contain the matched text when the
\* matched text's trimmed length exceeds 8.
C1_PreviewNeverHoldsMatch ==
    \A k \in 1..Len(findings) :
        Len(strip(hits[k].match)) > 8
            => ~Contains(findings[k].match_preview, hits[k].match)

C1_Witness ==
    /\ pc = "done"
    /\ \E j, k \in 1..Len(findings) :
        /\ hits[j].pattern_id = "private_key_block"
        /\ hits[k].pattern_id # "private_key_block"
        /\ Len(strip(hits[j].match)) > 8 /\ Len(strip(hits[k].match)) > 8
        /\ findings[k].match_preview # REDACTED

\* C2: preview(value) is the placeholder when the trimmed value has at most
\* 8 characters, and otherwise does not contain the trimmed value.
C2_PreviewContract ==
    pc = "done" =>
        /\ Len(strip(value)) <= 8 => result = REDACTED
        /\ Len(strip(value)) > 8 => ~Contains(result, strip(value))

\* C3: finding_id is a function of (file_path, line, matched text) alone:
\* findings that agree on the three have the same id, whatever the pattern
\* and the place of the match in the line, and the id is the digest of the
\* three and of nothing else.
C3_FindingIdFromTripleOnly ==
    /\ \A j, k \in 1..Len(findings) :
        (/\ findings[j].file_path = findings[k].file_path
         /\ findings[j].line = findings[k].line
         /\ hits[j].match = hits[k].match)
            => findings[j].finding_id = findings[k].finding_id
    /\ \A k \in 1..Len(findings) :
        findings[k].finding_id
            = sha256_hex(HashInput(findings[k].file_path, findings[k].line,
                                   hits[k].match))

C3_Witness ==
    /\ pc = "done"
    /\ \E j, k \in 1..Len(findings) :
        /\ j < k
        /\ findings[j].line = findings[k].line
        /\ hits[j].match = hits[k].match
        /\ hits[j].start # hits[k].start

\* C9: the hashed string determines the triple: no other triple has the
\* same hashed string.
C9_HashInputInjective ==
    pc = "done" =>
        \A t \in Triples :
            HashInput(t.file_path, t.line, t.matched_text) = encoded
                => t = triple


\* the file a yielded entry names
FileOf(y) == fs[relpath(y.full)]

\* rp is the path of something below the directory dir
Beneath(rp, dir) == IF dir = <<".">> THEN rp # <<".">> ELSE StartsWith(rp, dir \o <<"/">>)

\* the findings of every yielded file that can be read and decoded
C4_Candidates ==
    Concat([k \in 1..Len(yielded) |->
                IF FileOf(yielded[k]).status = "ok"
                THEN scan_text(yielded[k].rel_path, FileOf(yielded[k]).content)
                ELSE <<>>])

\* C4: scan_paths returns the candidate findings (those of scan_text over
\* every yielded file that can be read and decoded, in the order yielded)
\* without those whose id is allowlisted, and in the same order.
C4_AllowlistFilter ==
    pc = "returned" =>
        /\ \A k \in 1..Len(out) : out[k].finding_id \notin allowed
        /\ out = SelectSeq(C4_Candidates, LAMBDA f : f.finding_id \notin allowed)

C4_Witness ==
    /\ pc = "returned"
    /\ out # <<>>
    /\ \E i, j \in 1..Len(C4_Candidates) :
        /\ i < j
        /\ C4_Candidates[i].finding_id \in allowed
        /\ C4_Candidates[j].finding_id \notin allowed

\* the directories that are a scan root or below one
C5_RunDirs ==
    {dir \in DOMAIN TreeDirs :
        \E i \in 1..Len(paths) :
            /\ isdir(paths[i])
            /\ dir = relpath(paths[i]) \/ Beneath(dir, relpath(paths[i]))}

\* C5: a directory that is a scan root or below one, and whose relative path
\* with "/" appended starts with an exclude prefix, is never listed, and no
\* file below it is yielded.
C5_ExcludedNeverTraversed ==
    \A dir \in C5_RunDirs :
        is_excluded(dir \o <<"/">>, allowlist_file.exclude_dir_prefixes)
            => /\ dir \notin enumerated
               /\ \A k \in 1..Len(yielded) : ~Beneath(yielded[k].rel_path, dir)

\* C6: with no allowlist file main returns 2 and nothing is walked, read or
\* scanned, with --self-check too; a normal scan with a well-formed allowlist
\* returns 0 exactly when the list scan_paths returned is empty and 1
\* exactly when it is not.
C6_ExitCodes ==
    /\ allowlist_file.state = "missing" =>
        /\ pc \in {"main", "exit"}
        /\ pc = "exit" => exit_code = 2
        /\ enumerated = {} /\ opened = {} /\ yielded = <<>> /\ out = <<>>
        /\ DOMAIN fs = TreeFiles
    /\ (pc = "exit" /\ allowlist_file.state = "ok" /\ ~self_check) =>
        /\ exit_code \in {0, 1}
        /\ exit_code = 0 <=> out = <<>>
        /\ exit_code = 1 <=> out # <<>>

C6_Witness ==
    /\ pc = "exit" /\ ~self_check /\ allowlist_file.state = "ok"
    /\ exit_code = 1
    /\ Len(out) > 1
    /\ allowed # {}

\* the yielded files without those that cannot be read or decoded
C7_Readable == SelectSeq(yielded, LAMBDA y : FileOf(y).status = "ok")

\* C7: a file that cannot be read or decoded adds no finding and stops
\* nothing: every yielded file is opened, and scan_paths returns what it
\* would return for the yielded files without the failing ones.
C7_FailingFilesSkipped ==
    /\ pc # "raised"
    /\ pc = "returned" =>
        /\ opened = {yielded[k].full : k \in 1..Len(yielded)}
        /\ out = Concat([k \in 1..Len(C7_Readable) |->
                    SelectSeq(scan_text(C7_Readable[k].rel_path,
                                        FileOf(C7_Readable[k]).content),
                              LAMBDA f : f.finding_id \notin allowed)])

C7_Witness ==
    /\ pc = "returned"
    /\ \E i, j, k \in 1..Len(yielded) :
        /\ i < k /\ j < k
        /\ FileOf(yielded[i]).status = "unreadable"
        /\ FileOf(yielded[j]).status = "undecodable"
        /\ FileOf(yielded[k]).status = "ok"
        /\ \E n \in 1..Len(out) : out[n].file_path = yielded[k].rel_path

\* C8: the self-check, with any well-formed allowlist, finds the sample's
\* token, prints the success message and nothing that holds the token, and
\* returns 0.
C8_SelfCheckPasses ==
    (pc = "exit" /\ self_check /\ allowlist_file.state = "ok") =>
        /\ out # <<>>
        /\ exit_code = 0
        /\ printed = <<Message(<<"[","s","e","c","r","e","t","-","s","c","a","n","]",
                                 " ","s","e","l","f","-","c","h","e","c","k"," ","O","K">>)>>
        /\ \A k \in 1..Len(printed) : ~Contains(printed[k].text, FAKE)

\* the places in yielded of the files yielded for root i
C10_YieldedFor(i) == {k \in 1..Len(yielded) : yielded_for[k] = i}

\* C10: for a root that is a directory, the files yielded for it are the
\* regular files below it whose relative path starts with no exclude
\* prefix, each yielded once.
C10_PruningEqualsFiltering ==
    pc = "returned" =>
        \A i \in 1..Len(paths) :
            isdir(paths[i]) =>
                /\ \A j, k \in C10_YieldedFor(i) :
                    yielded[j].rel_path = yielded[k].rel_path => j = k
                /\ {yielded[k].rel_path : k \in C10_YieldedFor(i)}
                    = {n \in TreeFiles :
                          /\ Beneath(n, relpath(paths[i]))
                          /\ ~is_excluded(n, exclude_dir_prefixes)}

=============================================================================
